---- MODULE Spec2Model ----
(***************************************************************************)
(* Model of the two commands of terraform-scripts:                         *)
(*   tfc_cost_estimation.py  list workspaces, count resources by walking   *)
(*                           the paginated listing, roll up the cost;      *)
(*   tfc_get_outputs.py      resolve a workspace, fetch and print outputs. *)
(*                                                                         *)
(* Money is kept in units of 1e-5 USD (integers).  resources * TFC_COST is *)
(* resources * 336 of these units, round(x, 4) rounds to a multiple of 10  *)
(* units.  The product 336 * n is even, so no value the program rounds is  *)
(* a rounding tie and the binary floats of the program agree with this     *)
(* decimal arithmetic.                                                     *)
(*                                                                         *)
(* The environment (token, API behaviour, the organization's workspaces    *)
(* and each workspace's chain of pages) is chosen in the initial state and *)
(* never changes: it is the "unchanged organization" of a repeated run.    *)
(* Workspaces are well-formed ({id, attributes.name}) and page chains are  *)
(* finite, as the upstream API contract states.                            *)
(***************************************************************************)
EXTENDS Integers, Sequences, FiniteSets, TLC

\* ------------------------------------------------------------- bounds
MaxWorkspaces == 3      \* workspaces of the organization (Spec)
MaxPipelinePages == 1   \* pages per workspace in the pipeline runs (Spec)
MaxPages == 3           \* pages of the single workspace of SpecWalk
MaxRuns == 2            \* invocations of main() in a row
MaxRows == 3            \* rows handed to the rollup in SpecRollup
MaxOutputs == 2         \* entries of the state-version outputs listing

PipelineSizes == {0, 1}
WalkSizes == {0, 1, 2}
RollupCounts == {0, 1, 2, 3, 100, 200}

\* ---------------------------------------------------------- constants
\* TFC_COST = float(0.00014 * 24) = 0.00336 USD, in units of 1e-5 USD.
TFC_COST == 336

VARIABLES
    \* environment of the cost-estimation command
    fault,              \* "none" | "notoken" | "initfail" | "listfail"
    workspaces,         \* the organization's listing, in listing order
    chain,              \* chain[id]: the pages of workspace id's resources
    \* main() and count_resources() of tfc_cost_estimation.py
    pc, run,
    all_workspaces, idx, workspace_name, workspace_id,
    cr_total_resources, next_url,
    workspace_data,
    total_resources, total_monthly_cost, total_yearly_cost,
    \* what a run shows: requests sent, lines printed, rows and totals logged
    requests, raised, printed, rows, totals, exit_code,
    reports,            \* what each earlier run showed
    \* tfc_get_outputs.py: environment, program, and what it shows
    o_token, o_api, o_data, o_arg,
    o_pc, workspace, outputs, o_requests, o_stdout, o_error, o_exit

envVars == <<fault, workspaces, chain>>
progVars == <<pc, run, all_workspaces, idx, workspace_name, workspace_id,
              cr_total_resources, next_url, workspace_data,
              total_resources, total_monthly_cost, total_yearly_cost>>
obsVars == <<requests, raised, printed, rows, totals, exit_code, reports>>
costVars == <<envVars, progVars, obsVars>>
outVars == <<o_token, o_api, o_data, o_arg,
             o_pc, workspace, outputs, o_requests, o_stdout, o_error, o_exit>>
vars == <<costVars, outVars>>

\* ------------------------------------------------- the upstream server
\* A page of a resource listing: kind "ok" carries `size` items and a link
\* form; "transport" is a request that raises; "nodata" a body without "data".
Page(kind, size, link) == [kind |-> kind, size |-> size, link |-> link]

TerminalLinks == {"nolinks", "nonext", "nullnext", "emptynext"}
FailPages == {Page("transport", 0, "nolinks"), Page("nodata", 0, "nolinks")}

LastPages(sizes, links) ==
    {Page("ok", s, l) : s \in sizes, l \in links} \cup FailPages

RECURSIVE ChainsOfLen(_, _, _)
ChainsOfLen(k, sizes, links) ==
    IF k = 1 THEN {<<p>> : p \in LastPages(sizes, links)}
    ELSE {<<Page("ok", s, "url")>> \o c :
            s \in sizes, c \in ChainsOfLen(k - 1, sizes, links)}

Chains(maxLen, sizes, links) ==
    UNION {ChainsOfLen(k, sizes, links) : k \in 1..maxLen}

WsName(i) == IF i % 2 = 1 THEN "app" ELSE "net"
Listing(n) == [i \in 1..n |-> [id |-> i, name |-> WsName(i)]]

\* A link value as the program holds it: None, "" or a URL naming a page.
None == [kind |-> "None", ws |-> 0, page |-> 0]
EmptyStr == [kind |-> "empty", ws |-> 0, page |-> 0]
Url(ws, page) == [kind |-> "url", ws |-> ws, page |-> page]

\* The body the server sends for page `page` of workspace `ws`.
Response(ws, page) ==
    LET p == chain[ws][page] IN
    [raises |-> p.kind = "transport",
     has_data |-> p.kind = "ok",
     data_len |-> p.size,
     links |-> CASE p.link = "nolinks" -> "absent"
                 [] p.link = "nulllinks" -> "null"
                 [] OTHER -> "object",
     has_next |-> p.link \in {"nullnext", "emptynext", "url"},
     next |-> CASE p.link = "url" -> Url(ws, page + 1)
                [] p.link = "emptynext" -> EmptyStr
                [] OTHER -> None]

NotFound ==
    [raises |-> TRUE, has_data |-> FALSE, data_len |-> 0, links |-> "absent",
     has_next |-> FALSE, next |-> None]

\* What a request gets: a page of the chain, or an HTTP error for any other URL.
Serve(req) ==
    IF req.ws \in 1..Len(chain) /\ req.page \in 1..Len(chain[req.ws])
    THEN Response(req.ws, req.page)
    ELSE NotFound

\* --------------------------------------------------- count_resources
Truthy(v) == v.kind = "url"

\* Mutation: the cursor is ignored and the listing is requested anew.
WalkRequest_Restart(ws_id, url) ==
    [op |-> "list_resources", ws |-> ws_id, page |-> 1]

\* Lines 66-69: the request of one iteration of the loop.
WalkRequest(ws_id, url) ==
    IF Truthy(url) THEN [op |-> "_get", ws |-> url.ws, page |-> url.page]
    ELSE [op |-> "list_resources", ws |-> ws_id, page |-> 1]

\* Line 71: response["data"] raises KeyError without the key.
\* Line 74: response.get("links", {}).get("next") raises on "links": null.
IterationRaises(resp) ==
    resp.raises \/ ~resp.has_data \/ resp.links = "null"

\* The exception an iteration raises, by the line that raises it.
RaisedCause(resp) ==
    IF resp.raises THEN "TFCHTTPError"
    ELSE IF ~resp.has_data THEN "KeyError"
    ELSE "AttributeError"

\* Mutation: `=` for `+=` on line 72.
Accumulate_Overwrite(total, resp) == resp.data_len

\* Line 72.
Accumulate(total, resp) == total + resp.data_len

\* Mutation: the exception is re-raised as it came.
WrapError_Raw(cause) == cause

\* Lines 77-80: what leaves count_resources for an exception of the loop.
WrapError(cause) == "TerraformCloudError"

\* Mutation: the handler of line 135 names an exception that is never raised.
HandlerCatches_None(kind) == FALSE

\* Line 135: the only exception main() catches around count_resources.
HandlerCatches(kind) == kind = "TerraformCloudError"

\* Line 74: the value read as next_url.
LinksNext(resp) ==
    IF resp.links = "object" /\ resp.has_next THEN resp.next ELSE None

\* Mutation: the accumulator of line 61 outlives the call.
InitialTotal_Carried(previous) == previous

\* Lines 61-62.
InitialTotal(previous) == 0
InitialUrl(previous) == None

\* ---------------------------------------------------- calculate_cost
\* round(x, 4) of a non-negative amount: to the nearest multiple of 10 units,
\* ties to even.
Round4(x) ==
    LET q == x \div 10
        r == x % 10
    IN  IF r < 5 THEN 10 * q
        ELSE IF r > 5 THEN 10 * (q + 1)
        ELSE IF q % 2 = 0 THEN 10 * q ELSE 10 * (q + 1)

\* Mutation: line 94 without round().
calculate_cost_Unrounded(resources) == resources * TFC_COST

\* Line 94.
calculate_cost(resources) == Round4(resources * TFC_COST)

\* ------------------------------------------------------------ main()
\* Mutation: an insertion that puts a row before the rows of equal count.
RECURSIVE InsertRow_Unstable(_, _)
InsertRow_Unstable(sorted, row) ==
    IF sorted = <<>> THEN <<row>>
    ELSE IF sorted[Len(sorted)][3] < row[3] THEN Append(sorted, row)
    ELSE Append(InsertRow_Unstable(SubSeq(sorted, 1, Len(sorted) - 1), row),
                sorted[Len(sorted)])

\* Line 138: list.sort(key=lambda x: x[2]) is stable and ascending.
RECURSIVE InsertRow(_, _)
InsertRow(sorted, row) ==
    IF sorted = <<>> THEN <<row>>
    ELSE IF sorted[Len(sorted)][3] <= row[3] THEN Append(sorted, row)
    ELSE Append(InsertRow(SubSeq(sorted, 1, Len(sorted) - 1), row),
                sorted[Len(sorted)])

RECURSIVE SortByCount(_)
SortByCount(data) ==
    IF data = <<>> THEN <<>>
    ELSE InsertRow(SortByCount(SubSeq(data, 1, Len(data) - 1)), data[Len(data)])

\* Lines 143-145: the accumulators after the first k rows.
RECURSIVE RollupLoop(_, _)
RollupLoop(data, k) ==
    IF k = 0 THEN [resources |-> 0, monthly |-> 0, logged |-> <<>>]
    ELSE LET acc == RollupLoop(data, k - 1)
             row == data[k]
             cost == calculate_cost(row[3])
         IN  [resources |-> acc.resources + row[3],
              monthly |-> acc.monthly + cost,
              logged |-> Append(acc.logged,
                                [name |-> row[1], id |-> row[2],
                                 resources |-> row[3], cost |-> cost])]

\* Line 147.
YearlyCost(monthly) == Round4(monthly * 12)

NoTotals == [resources |-> -1, monthly |-> -1, yearly |-> -1]

ProgInit ==
    /\ pc = "start" /\ run = 1
    /\ all_workspaces = <<>> /\ idx = 0
    /\ workspace_name = "" /\ workspace_id = 0
    /\ cr_total_resources = 0 /\ next_url = None
    /\ workspace_data = <<>>
    /\ total_resources = 0 /\ total_monthly_cost = 0 /\ total_yearly_cost = 0

ObsInit ==
    /\ requests = <<>> /\ raised = <<>> /\ printed = <<>> /\ rows = <<>>
    /\ totals = NoTotals /\ exit_code = -1 /\ reports = <<>>

Faults == {"none", "notoken", "initfail", "listfail"}

\* Lines 109-111.
CheckToken ==
    /\ pc = "start"
    /\ IF fault = "notoken"
       THEN /\ printed' = Append(printed, "TFC_TOKEN environment variable not set")
            /\ exit_code' = 1
            /\ pc' = "exit"
       ELSE /\ pc' = "init_api"
            /\ UNCHANGED <<printed, exit_code>>
    /\ UNCHANGED <<envVars, run, all_workspaces, idx, workspace_name,
                   workspace_id, cr_total_resources, next_url, workspace_data,
                   total_resources, total_monthly_cost, total_yearly_cost,
                   requests, raised, rows, totals, reports, outVars>>

\* Mutation: the failure of lines 116-118 is printed but main() goes on.
InitApi_Continues ==
    /\ pc = "init_api"
    /\ printed' = IF fault = "initfail"
                  THEN Append(printed, "Failed to initialize TFC API")
                  ELSE printed
    /\ pc' = "list"
    /\ UNCHANGED <<envVars, run, all_workspaces, idx, workspace_name,
                   workspace_id, cr_total_resources, next_url, workspace_data,
                   total_resources, total_monthly_cost, total_yearly_cost,
                   requests, raised, rows, totals, exit_code, reports, outVars>>

\* Lines 113-118.
InitApi ==
    /\ pc = "init_api"
    /\ IF fault = "initfail"
       THEN /\ printed' = Append(printed, "Failed to initialize TFC API")
            /\ exit_code' = 1
            /\ pc' = "exit"
       ELSE /\ pc' = "list"
            /\ UNCHANGED <<printed, exit_code>>
    /\ UNCHANGED <<envVars, run, all_workspaces, idx, workspace_name,
                   workspace_id, cr_total_resources, next_url, workspace_data,
                   total_resources, total_monthly_cost, total_yearly_cost,
                   requests, raised, rows, totals, reports, outVars>>

\* Lines 120-126 and the start of the loop of line 128.
ListWorkspaces ==
    /\ pc = "list"
    /\ IF fault = "listfail"
       THEN /\ printed' = Append(printed, "Failed to list workspaces")
            /\ exit_code' = 1
            /\ pc' = "exit"
            /\ UNCHANGED <<all_workspaces, workspace_data, idx>>
       ELSE /\ all_workspaces' = workspaces
            /\ workspace_data' = <<>>
            /\ idx' = 1
            /\ pc' = "loop"
            /\ UNCHANGED <<printed, exit_code>>
    /\ UNCHANGED <<envVars, run, workspace_name, workspace_id,
                   cr_total_resources, next_url,
                   total_resources, total_monthly_cost, total_yearly_cost,
                   requests, raised, rows, totals, reports, outVars>>

\* Lines 128-133 and 61-62: take the next workspace and enter count_resources,
\* or leave the loop.
LoopNext ==
    /\ pc = "loop"
    /\ IF idx <= Len(all_workspaces)
       THEN /\ workspace_name' = all_workspaces[idx].name
            /\ workspace_id' = all_workspaces[idx].id
            /\ cr_total_resources' = InitialTotal(cr_total_resources)
            /\ next_url' = InitialUrl(next_url)
            /\ pc' = "walk"
       ELSE /\ pc' = "sort"
            /\ UNCHANGED <<workspace_name, workspace_id, cr_total_resources,
                           next_url>>
    /\ UNCHANGED <<envVars, run, all_workspaces, idx, workspace_data,
                   total_resources, total_monthly_cost, total_yearly_cost,
                   obsVars, outVars>>

\* Lines 65-82 (one iteration of the walk) and, when count_resources returns
\* or raises, lines 134-136.  An exception main() does not catch ends the
\* interpreter with a traceback and status 1.
WalkPage ==
    /\ pc = "walk"
    /\ LET req == WalkRequest(workspace_id, next_url)
           resp == Serve(req)
           total == Accumulate(cr_total_resources, resp)
           link == LinksNext(resp)
           kind == WrapError(RaisedCause(resp))
       IN  /\ requests' = Append(requests, req)
           /\ IF IterationRaises(resp)
              THEN \* lines 77-80, then 135-136
                   /\ cr_total_resources' =
                          IF resp.raises \/ ~resp.has_data
                          THEN cr_total_resources ELSE total
                   /\ raised' = Append(raised, [ws |-> workspace_id, kind |-> kind])
                   /\ IF HandlerCatches(kind)
                      THEN /\ printed' = Append(printed, workspace_name)
                           /\ idx' = idx + 1
                           /\ pc' = "loop"
                           /\ UNCHANGED exit_code
                      ELSE /\ exit_code' = 1
                           /\ pc' = "exit"
                           /\ UNCHANGED <<printed, idx>>
                   /\ UNCHANGED <<next_url, workspace_data>>
              ELSE /\ cr_total_resources' = total
                   /\ next_url' = link
                   /\ IF Truthy(link)
                      THEN /\ pc' = "walk"
                           /\ UNCHANGED <<workspace_data, idx>>
                      ELSE \* lines 76, 82, then 134
                           /\ workspace_data' =
                                  Append(workspace_data,
                                         <<workspace_name, workspace_id, total>>)
                           /\ idx' = idx + 1
                           /\ pc' = "loop"
                   /\ UNCHANGED <<raised, printed, exit_code>>
    /\ UNCHANGED <<envVars, run, all_workspaces, workspace_name, workspace_id,
                   total_resources, total_monthly_cost, total_yearly_cost,
                   rows, totals, reports, outVars>>

\* Line 138.
SortData ==
    /\ pc = "sort"
    /\ workspace_data' = SortByCount(workspace_data)
    /\ pc' = "rollup"
    /\ UNCHANGED <<envVars, run, all_workspaces, idx, workspace_name,
                   workspace_id, cr_total_resources, next_url,
                   total_resources, total_monthly_cost, total_yearly_cost,
                   obsVars, outVars>>

\* Lines 140-147.
Rollup ==
    /\ pc = "rollup"
    /\ LET acc == RollupLoop(workspace_data, Len(workspace_data))
       IN  /\ total_resources' = acc.resources
           /\ total_monthly_cost' = acc.monthly
           /\ total_yearly_cost' = YearlyCost(acc.monthly)
           /\ rows' = rows \o acc.logged
    /\ pc' = "report"
    /\ UNCHANGED <<envVars, run, all_workspaces, idx, workspace_name,
                   workspace_id, cr_total_resources, next_url, workspace_data,
                   requests, raised, printed, totals, exit_code, reports, outVars>>

\* Lines 149-151, then the interpreter exits with status 0.
Report ==
    /\ pc = "report"
    /\ totals' = [resources |-> total_resources,
                  monthly |-> Round4(total_monthly_cost),
                  yearly |-> total_yearly_cost]
    /\ exit_code' = 0
    /\ pc' = "exit"
    /\ UNCHANGED <<envVars, run, all_workspaces, idx, workspace_name,
                   workspace_id, cr_total_resources, next_url, workspace_data,
                   total_resources, total_monthly_cost, total_yearly_cost,
                   requests, raised, printed, rows, reports, outVars>>

\* What the finished run showed.
Shown ==
    [requests |-> requests, raised |-> raised, printed |-> printed, rows |-> rows,
     totals |-> totals, exit_code |-> exit_code]

\* Lines 154-155 once more: main() is run again.  Only what main() and
\* count_resources assign themselves is fresh in the new run.
Rerun ==
    /\ pc = "exit"
    /\ run < MaxRuns
    /\ reports' = Append(reports, Shown)
    /\ requests' = <<>> /\ raised' = <<>> /\ printed' = <<>> /\ rows' = <<>>
    /\ totals' = NoTotals /\ exit_code' = -1
    /\ run' = run + 1
    /\ pc' = "start"
    /\ UNCHANGED <<envVars, all_workspaces, idx, workspace_name, workspace_id,
                   cr_total_resources, next_url, workspace_data,
                   total_resources, total_monthly_cost, total_yearly_cost,
                   outVars>>

OutIdle ==
    /\ o_token = TRUE /\ o_api = "ok" /\ o_data = <<>> /\ o_arg = "<None>"
    /\ o_pc = "idle" /\ workspace = "" /\ outputs = <<>>
    /\ o_requests = <<>> /\ o_stdout = <<>> /\ o_error = "" /\ o_exit = -1

\* The cost-estimation command against an organization of up to MaxWorkspaces
\* workspaces.
Init ==
    /\ fault \in Faults
    /\ \E n \in 0..MaxWorkspaces :
         /\ workspaces = Listing(n)
         /\ chain \in [1..n -> Chains(MaxPipelinePages, PipelineSizes, {"nonext"})]
    /\ ProgInit /\ ObsInit /\ OutIdle

Next ==
    \/ CheckToken
    \/ InitApi
    \/ ListWorkspaces
    \/ LoopNext
    \/ WalkPage
    \/ SortData
    \/ Rollup
    \/ Report
    \/ Rerun

Spec == Init /\ [][Next]_vars

\* The same command against one workspace with every shape of page chain.
InitWalk ==
    /\ fault \in Faults
    /\ workspaces = Listing(1)
    /\ chain \in [1..1 -> Chains(MaxPages, WalkSizes,
                                 TerminalLinks \cup {"nulllinks"})]
    /\ ProgInit /\ ObsInit /\ OutIdle

SpecWalk == InitWalk /\ [][Next]_vars

\* The sort and the rollup of lines 138-151 on any rows the loop can have
\* collected: workspace i of the listing has one page of counts[i] resources.
InitRollup ==
    /\ fault = "none"
    /\ \E n \in 0..MaxRows : \E counts \in [1..n -> RollupCounts] :
         /\ workspaces = Listing(n)
         /\ chain = [i \in 1..n |-> <<Page("ok", counts[i], "nonext")>>]
         /\ all_workspaces = Listing(n)
         /\ idx = n + 1
         /\ workspace_name = (IF n = 0 THEN "" ELSE WsName(n))
         /\ workspace_id = n
         /\ cr_total_resources = (IF n = 0 THEN 0 ELSE counts[n])
         /\ workspace_data = [i \in 1..n |-> <<WsName(i), i, counts[i]>>]
         /\ requests = [i \in 1..n |->
                          [op |-> "list_resources", ws |-> i, page |-> 1]]
    /\ pc = "sort" /\ run = 1 /\ next_url = None
    /\ total_resources = 0 /\ total_monthly_cost = 0 /\ total_yearly_cost = 0
    /\ raised = <<>> /\ printed = <<>> /\ rows = <<>>
    /\ totals = NoTotals /\ exit_code = -1 /\ reports = <<>>
    /\ OutIdle

NextRollup ==
    \/ SortData
    \/ Rollup
    \/ Report

SpecRollup == InitRollup /\ [][NextRollup]_vars

\* -------------------------------------------------- tfc_get_outputs.py
OutputNames == {"vpc_id", "region"}
OutputValues == {"vpc-1", "us-east-1"}
ArgNone == "<None>"
OutputArgs == {ArgNone, "", "bogus"} \cup OutputNames
ApiBehaviours == {"ok", "initfail", "show_none", "show_raises", "outputs_fail"}
ProdId == "ws-prod"

RECURSIVE SeqsUpTo(_, _)
SeqsUpTo(S, n) ==
    IF n = 0 THEN {<<>>}
    ELSE SeqsUpTo(S, n - 1) \cup
         {Append(q, x) : q \in {t \in SeqsUpTo(S, n - 1) : Len(t) = n - 1}, x \in S}

\* Mutation: the comprehension stores the name where the value belongs.
RECURSIVE OutputDict_NameAsValue(_)
OutputDict_NameAsValue(data) ==
    IF data = <<>> THEN {}
    ELSE LET d == OutputDict_NameAsValue(SubSeq(data, 1, Len(data) - 1))
             e == data[Len(data)]
         IN  {p \in d : p[1] # e.name} \cup {<<e.name, e.name>>}

\* Lines 97-100: the dict comprehension, a later entry replacing an earlier
\* one of the same name.  A dict is held as its set of <<name, value>> pairs.
RECURSIVE OutputDict(_)
OutputDict(data) ==
    IF data = <<>> THEN {}
    ELSE LET d == OutputDict(SubSeq(data, 1, Len(data) - 1))
             e == data[Len(data)]
         IN  {p \in d : p[1] # e.name} \cup {<<e.name, e.value>>}

HasKey(d, n) == \E p \in d : p[1] = n
Lookup(d, n) == (CHOOSE p \in d : p[1] = n)[2]

\* Line 102: `if args.output`.
OutputGiven(arg) == arg # ArgNone /\ arg # ""

Line(kind, text, mapping) == [kind |-> kind, text |-> text, mapping |-> mapping]

\* Lines 79-80 and 93-95: whatever get_outputs raises reaches main() as a
\* TerraformCloudError, whose message is printed before exit(1).
WrappedFailure(cause) ==
    /\ o_stdout' = Append(o_stdout, Line("message", cause, {}))
    /\ o_error' = "TerraformCloudError"
    /\ o_exit' = 1
    /\ o_pc' = "exit"

\* Lines 87-89.
O_CheckToken ==
    /\ o_pc = "start"
    /\ IF ~o_token
       THEN /\ o_stdout' = Append(o_stdout,
                   Line("message", "Please set the TFC_TOKEN environment variable.", {}))
            /\ o_exit' = 1
            /\ o_pc' = "exit"
       ELSE /\ o_pc' = "init_api"
            /\ UNCHANGED <<o_stdout, o_exit>>
    /\ UNCHANGED <<costVars, o_token, o_api, o_data, o_arg, workspace, outputs,
                   o_requests, o_error>>

\* Lines 67-68.
O_InitApi ==
    /\ o_pc = "init_api"
    /\ IF o_api = "initfail"
       THEN WrappedFailure("api initialization failed")
       ELSE /\ o_pc' = "show"
            /\ UNCHANGED <<o_stdout, o_error, o_exit>>
    /\ UNCHANGED <<costVars, o_token, o_api, o_data, o_arg, workspace, outputs,
                   o_requests>>

\* Lines 70-74.
O_ShowWorkspace ==
    /\ o_pc = "show"
    /\ o_requests' = Append(o_requests, [op |-> "workspaces.show", arg |-> "--ws"])
    /\ IF o_api = "show_raises"
       THEN WrappedFailure("not found") /\ UNCHANGED workspace
       ELSE IF o_api = "show_none"
       THEN WrappedFailure("Workspace not found in organization")
            /\ UNCHANGED workspace
       ELSE /\ workspace' = ProdId
            /\ o_pc' = "fetch"
            /\ UNCHANGED <<o_stdout, o_error, o_exit>>
    /\ UNCHANGED <<costVars, o_token, o_api, o_data, o_arg, outputs>>

\* Lines 76-78, and the return to line 92.
O_FetchOutputs ==
    /\ o_pc = "fetch"
    /\ o_requests' = Append(o_requests,
           [op |-> "state_version_outputs.show_current_for_workspace",
            arg |-> workspace])
    /\ IF o_api = "outputs_fail"
       THEN WrappedFailure("outputs request failed") /\ UNCHANGED outputs
       ELSE /\ outputs' = o_data
            /\ o_pc' = "print"
            /\ UNCHANGED <<o_stdout, o_error, o_exit>>
    /\ UNCHANGED <<costVars, o_token, o_api, o_data, o_arg, workspace>>

\* Mutation: dict.get() for the subscript of line 103.
MissingOutput_PrintsNone(output_dict, arg) ==
    /\ o_stdout' = Append(o_stdout, [kind |-> "value", text |-> "None", mapping |-> {}])
    /\ o_exit' = 0
    /\ UNCHANGED o_error

\* What line 103 does with a name the dict does not hold: the subscript raises
\* KeyError, which nothing catches; nothing is printed on stdout and the
\* interpreter exits with status 1.
MissingOutput(output_dict, arg) ==
    /\ o_error' = "KeyError"
    /\ o_exit' = 1
    /\ UNCHANGED o_stdout

\* Lines 97-105.
O_Print ==
    /\ o_pc = "print"
    /\ LET output_dict == OutputDict(outputs) IN
       IF OutputGiven(o_arg)
       THEN IF HasKey(output_dict, o_arg)
            THEN /\ o_stdout' = Append(o_stdout,
                        Line("value", Lookup(output_dict, o_arg), {}))
                 /\ o_exit' = 0
                 /\ UNCHANGED o_error
            ELSE MissingOutput(output_dict, o_arg)
       ELSE /\ o_stdout' = Append(o_stdout, Line("json", "", output_dict))
            /\ o_exit' = 0
            /\ UNCHANGED o_error
    /\ o_pc' = "exit"
    /\ UNCHANGED <<costVars, o_token, o_api, o_data, o_arg, workspace, outputs,
                   o_requests>>

CostIdle ==
    /\ fault = "none" /\ workspaces = <<>> /\ chain = <<>>
    /\ ProgInit /\ ObsInit

InitOutputs ==
    /\ CostIdle
    /\ o_token \in BOOLEAN
    /\ o_api \in ApiBehaviours
    /\ o_data \in SeqsUpTo([name : OutputNames, value : OutputValues], MaxOutputs)
    /\ o_arg \in OutputArgs
    /\ o_pc = "start" /\ workspace = "" /\ outputs = <<>>
    /\ o_requests = <<>> /\ o_stdout = <<>> /\ o_error = "" /\ o_exit = -1

NextOutputs ==
    \/ O_CheckToken
    \/ O_InitApi
    \/ O_ShowWorkspace
    \/ O_FetchOutputs
    \/ O_Print

SpecOutputs == InitOutputs /\ [][NextOutputs]_vars

\* ===================================================================
\* Properties.  What the environment should yield is computed here from the
\* page chains alone, without the program's operators.

RECURSIVE ChainSum(_)
ChainSum(c) == IF c = <<>> THEN 0 ELSE c[1].size + ChainSum(Tail(c))

\* A chain ends in a failing request or in a page without a next link.
ChainFails(c) == c[Len(c)].kind # "ok" \/ c[Len(c)].link = "nulllinks"

WsFails(w) == ChainFails(chain[w.id])
WsSucceeds(w) == ~ChainFails(chain[w.id])
Failed == SelectSeq(workspaces, WsFails)
Succeeded == SelectSeq(workspaces, WsSucceeds)
ExpectedData ==
    [k \in 1..Len(Succeeded) |->
        <<Succeeded[k].name, Succeeded[k].id, ChainSum(chain[Succeeded[k].id])>>]

RECURSIVE SumCounts(_)
SumCounts(data) == IF data = <<>> THEN 0 ELSE data[1][3] + SumCounts(Tail(data))

RECURSIVE SumRoundedCosts(_)
SumRoundedCosts(data) ==
    IF data = <<>> THEN 0
    ELSE Round4(data[1][3] * TFC_COST) + SumRoundedCosts(Tail(data))

ListingPos(id) == CHOOSE i \in DOMAIN workspaces : workspaces[i].id = id

IsPrefix(a, b) == Len(a) <= Len(b) /\ a = SubSeq(b, 1, Len(a))

\* The requests a walk of workspace i must send: the listing call, then the
\* next link of each response received.
ExpectedRequests(i) ==
    [j \in 1..Len(chain[i]) |->
        IF j = 1 THEN [op |-> "list_resources", ws |-> i, page |-> 1]
        ELSE [op |-> "_get", ws |-> Response(i, j - 1).next.ws,
              page |-> Response(i, j - 1).next.page]]

RECURSIVE ExpectedUpTo(_)
ExpectedUpTo(n) ==
    IF n = 0 THEN <<>>
    ELSE ExpectedUpTo(n - 1) \o ExpectedRequests(workspaces[n].id)

IsListCall(r) == r.op = "list_resources"
Attempts == SelectSeq(requests, IsListCall)

\* C1: a workspace whose K pages are all served gets the count s1 + ... + sK
\* (the single page size for K = 1, 0 for an empty page), and every row the
\* loop holds carries that sum.
C1_CountIsSumOfPages ==
    /\ \A k \in DOMAIN workspace_data :
          workspace_data[k][3] = ChainSum(chain[workspace_data[k][2]])
    /\ pc = "sort" =>
          \A i \in DOMAIN workspaces :
             WsSucceeds(workspaces[i]) =>
                \E k \in DOMAIN workspace_data :
                   workspace_data[k] =
                      <<workspaces[i].name, workspaces[i].id,
                        ChainSum(chain[workspaces[i].id])>>

C1_Witness ==
    /\ pc = "sort"
    /\ Len(chain[1]) >= 3
    /\ chain[1][1].size > 0 /\ chain[1][2].size > 0
    /\ workspace_data = <<<<"app", 1, 3>>>>

\* C2: a run that lists the workspaces attempts each of them once, in listing
\* order, whatever fails; each failed workspace is reported and has no row,
\* and the totals are those of the workspaces that were counted.
C2_PartialFailureIsolated ==
    (pc = "exit" /\ fault = "none") =>
       /\ Len(Attempts) = Len(workspaces)
       /\ \A i \in DOMAIN workspaces : Attempts[i].ws = workspaces[i].id
       /\ Len(printed) = Len(Failed)
       /\ \A k \in DOMAIN Failed : printed[k] = Failed[k].name
       /\ Len(rows) = Len(Succeeded)
       /\ \A k \in DOMAIN rows : \E j \in DOMAIN Succeeded : rows[k].id = Succeeded[j].id
       /\ totals.resources = SumCounts(ExpectedData)
       /\ totals.monthly = Round4(SumRoundedCosts(ExpectedData))
       /\ totals.yearly = Round4(12 * SumRoundedCosts(ExpectedData))

C2_Witness ==
    /\ pc = "exit" /\ fault = "none"
    /\ Len(workspaces) = 3
    /\ WsSucceeds(workspaces[1]) /\ WsFails(workspaces[2]) /\ WsSucceeds(workspaces[3])
    /\ printed = <<"net">>
    /\ Len(rows) = 2
    /\ totals.resources = 2

\* C3: a walk in which a request fails (transport error, body without "data",
\* unusable "links") leaves no row for the workspace, not even with the sum of
\* the pages read, and count_resources raises TerraformCloudError whatever the
\* cause.
C3_FailureDiscardsCount ==
    /\ \A k \in DOMAIN raised : raised[k].kind = "TerraformCloudError"
    /\ \A k \in DOMAIN workspace_data :
          ~ChainFails(chain[workspace_data[k][2]])
    /\ pc = "sort" =>
          \A i \in DOMAIN workspaces :
             WsFails(workspaces[i]) =>
                \E k \in DOMAIN raised : raised[k].ws = workspaces[i].id

C3_Witness ==
    /\ pc = "sort"
    /\ Len(chain[1]) >= 2
    /\ chain[1][Len(chain[1])].kind = "nodata"
    /\ cr_total_resources > 0
    /\ workspace_data = <<>>
    /\ raised = <<[ws |-> 1, kind |-> "TerraformCloudError"]>>

\* C4: the emitted rows are the counted workspaces, each once, in ascending
\* order of resource_count, rows of equal count in listing order.
C4_SortedStable ==
    (pc = "exit" /\ exit_code = 0) =>
       /\ Len(rows) = Len(ExpectedData)
       /\ \A j \in DOMAIN ExpectedData :
             \E k \in DOMAIN rows :
                <<rows[k].name, rows[k].id, rows[k].resources>> = ExpectedData[j]
       /\ \A k, l \in DOMAIN rows :
             k < l =>
                /\ rows[k].resources <= rows[l].resources
                /\ rows[k].resources = rows[l].resources =>
                      ListingPos(rows[k].id) < ListingPos(rows[l].id)

C4_Witness ==
    /\ pc = "exit" /\ exit_code = 0
    /\ Len(rows) = 3
    /\ rows[1].id = 2 /\ rows[2].id = 1 /\ rows[3].id = 3
    /\ rows[2].resources = rows[3].resources

\* C5: each row's cost is round(count * RATE, 4); the reported monthly total
\* is round(sum of those rounded costs, 4) and the reported yearly total is
\* round(12 * reported monthly total, 4).
C5_RoundingOrder ==
    pc = "exit" =>
       /\ Len(rows) = Len(workspace_data)
       /\ \A k \in DOMAIN rows :
             rows[k].cost = Round4(workspace_data[k][3] * TFC_COST)
       /\ totals.monthly = Round4(SumRoundedCosts(workspace_data))
       /\ totals.yearly = Round4(12 * totals.monthly)

\* counts 100 and 200: 0.336 and 0.672, monthly 1.008, yearly 12.096
C5_Witness ==
    /\ pc = "exit"
    /\ Len(rows) = 2
    /\ rows[1].resources = 100 /\ rows[1].cost = 33600
    /\ rows[2].resources = 200 /\ rows[2].cost = 67200
    /\ totals = [resources |-> 300, monthly |-> 100800, yearly |-> 1209600]

\* C6: the command exits 1 exactly on a missing token, a failed API
\* initialization or a failed workspace listing, then without having sent a
\* counting request or emitted a row or a total; every other run goes on to
\* the rollup and exits 0, whatever counts fail.
C6_ExitCodes ==
    /\ pc = "exit" => exit_code \in {0, 1}
    /\ pc = "exit" => (exit_code = 1 <=> fault # "none")
    /\ fault # "none" =>
          requests = <<>> /\ raised = <<>> /\ rows = <<>> /\ totals = NoTotals
    /\ (pc = "exit" /\ exit_code = 0) =>
          totals # NoTotals /\ Len(Attempts) = Len(workspaces)
    /\ pc # "exit" => exit_code = -1 /\ ENABLED Next

C6_Witness ==
    /\ pc = "exit" /\ exit_code = 1
    /\ fault = "listfail"
    /\ Len(workspaces) = 3
    /\ printed = <<"Failed to list workspaces">>

\* C9: a second run against the unchanged organization shows what the first
\* showed (requests, errors, rows, totals, exit code), and every walk starts
\* from a zero accumulator and no cursor.
C9_RunsAgree ==
    /\ pc = "exit" => \A k \in DOMAIN reports : reports[k] = Shown
    /\ (pc = "walk" /\ \A k \in DOMAIN requests : requests[k].ws # workspace_id) =>
          cr_total_resources = 0 /\ next_url = None

C9_Witness ==
    /\ pc = "exit" /\ run = 2
    /\ Len(reports) = 1
    /\ Len(rows) = 2 /\ Len(printed) = 1
    /\ totals.resources > 0

\* C10: a walk sends the listing call once, then exactly the next link of the
\* response just received, in order, and stops at the first response without
\* one: K requests for a chain of K pages, however long the chain.
C10_FollowsLinksVerbatim ==
    /\ IsPrefix(requests, ExpectedUpTo(Len(workspaces)))
    /\ pc = "sort" => requests = ExpectedUpTo(Len(workspaces))
    /\ (pc = "loop" /\ idx >= 1) => requests = ExpectedUpTo(idx - 1)

C10_Witness ==
    /\ pc = "sort"
    /\ Len(chain[1]) = 3
    /\ requests = <<[op |-> "list_resources", ws |-> 1, page |-> 1],
                    [op |-> "_get", ws |-> 1, page |-> 2],
                    [op |-> "_get", ws |-> 1, page |-> 3]>>

\* ------------------------------------------------------------ outputs
UniqueNames(data) ==
    \A i, j \in DOMAIN data : i # j => data[i].name # data[j].name
Mapping(data) == {<<data[i].name, data[i].value>> : i \in DOMAIN data}
NamesOf(data) == {data[i].name : i \in DOMAIN data}
ValueLines == {k \in DOMAIN o_stdout : o_stdout[k].kind \in {"value", "json"}}
\* --output was left out, or given empty (no output has the empty name).
NoNameRequested == o_arg \in {ArgNone, ""}

\* C7: a name that the outputs of an existing workspace do not hold ends the
\* command with an uncaught KeyError; a workspace that is not found ends it
\* with a TerraformCloudError whose message is printed before exit 1; the two
\* kinds differ and neither run prints an output value.
C7_OutputMissDistinct ==
    o_pc = "exit" /\ o_token =>
       /\ (o_api = "ok" /\ ~NoNameRequested /\ o_arg \notin NamesOf(o_data)) =>
             /\ o_error = "KeyError"
             /\ o_error # "TerraformCloudError"
             /\ o_exit = 1
             /\ o_stdout = <<>>
       /\ o_api \in {"show_none", "show_raises"} =>
             /\ o_error = "TerraformCloudError"
             /\ o_exit = 1
             /\ Len(o_stdout) = 1 /\ o_stdout[1].kind = "message"
             /\ ValueLines = {}

C7_Witness ==
    /\ o_pc = "exit" /\ o_token /\ o_api = "ok"
    /\ o_arg = "bogus"
    /\ Len(o_data) = 2
    /\ o_error = "KeyError" /\ o_exit = 1

\* C8: for an existing workspace whose outputs M have unique names, no output
\* name prints the whole of M, a name n of M prints M[n] and nothing else; the
\* outputs are requested only after the workspace was resolved, for its ID.
C8_OutputsEmitted ==
    /\ \A k \in DOMAIN o_requests :
          o_requests[k].op = "state_version_outputs.show_current_for_workspace" =>
             /\ k > 1
             /\ o_requests[k - 1].op = "workspaces.show"
             /\ o_requests[k].arg = ProdId
    /\ (o_pc = "exit" /\ o_token /\ o_api = "ok" /\ UniqueNames(o_data)) =>
          /\ Len(o_requests) = 2
          /\ NoNameRequested =>
                /\ o_stdout = <<[kind |-> "json", text |-> "", mapping |-> Mapping(o_data)]>>
                /\ o_exit = 0
          /\ o_arg \in NamesOf(o_data) =>
                /\ Len(o_stdout) = 1
                /\ o_stdout[1].kind = "value"
                /\ <<o_arg, o_stdout[1].text>> \in Mapping(o_data)
                /\ o_exit = 0

C8_Witness ==
    /\ o_pc = "exit"
    /\ o_arg = "vpc_id"
    /\ o_data = <<[name |-> "vpc_id", value |-> "vpc-1"],
                  [name |-> "region", value |-> "us-east-1"]>>
    /\ o_stdout = <<[kind |-> "value", text |-> "vpc-1", mapping |-> {}]>>

====
